---- MODULE Spec2Model ----
(***************************************************************************)
(* A model of src/GraphmlNamespace.js: the namespace registry              *)
(* (document.namespaces and the GraphmlNamespace instances), the class     *)
(* mapping of each namespace, and the sequential class loader              *)
(* (GraphmlNamespaceClassLoader).  JavaScript runs every call to           *)
(* completion, so each call is one action; the only suspension points are  *)
(* the outstanding <script> fetches, whose onload / onerror callbacks are   *)
(* actions of their own.                                                    *)
(***************************************************************************)
EXTENDS Integers, Sequences, FiniteSets, TLC

\* ------------------------------------------------------------------ bounds
\* Number of GraphmlNamespace instances ever constructed.
MaxInst == 3

\* Number of instances constructed where the class mappings are explored.
MaxClassInst == 2

\* Number of setSpecificClass calls made directly by a caller.
MaxSetCalls == 2

\* Number of namespaces constructed with a class list.
MaxLoaderInst == 1

\* Number of <script> elements the enqueued tasks may ask for in total.
MaxScripts == 4

\* ------------------------------------------------------------ value domains
\* Namespace URIs handed to the constructor and to setNamespaceURI.
Uris == {"U", "V"}

\* The uri field of an instance that has not been constructed yet.
NoUri == ""

\* Instances are references 1..MaxInst, allocated in construction order.
Insts == 1 .. MaxInst

\* The JavaScript value undefined (what a property read yields when the
\* property is missing, and what namespaces[uri] = namespaces[oldURI] stores
\* when the old slot is empty).
Undefined == 0

\* A property that is not present in document.namespaces at all
\* (never written, or removed by delete).
Absent == -1

\* JavaScript strings that the code slices or tests for emptiness are
\* sequences of characters; the empty string (falsy, like null) is <<>>.
EmptyString == <<>>

\* Class names used as keys of a namespace's classList.
ClassNames == {<<"X">>, <<"Y">>}

\* JavaScript values handed to setSpecificClass as newClass.  type is the
\* result of typeof, name the function's own name, ctor what the value's
\* constructor property is (Function for a function or class declaration,
\* GeneratorFunction for a function*), id the identity of the value.
Value(type, id, name, ctor) ==
    [type |-> type, id |-> id, name |-> name, ctor |-> ctor]

UndefinedValue == Value("undefined", 0, EmptyString, "")
ObjectValue == Value("object", 9, EmptyString, "Object")

Functions ==
    { Value("function", 1, <<"X">>, "Function"),           \* function X(){}
      Value("function", 2, <<"X">>, "Function"),           \* another function X(){}
      Value("function", 3, EmptyString, "Function"),       \* function(){}
      Value("function", 4, <<"X">>, "GeneratorFunction") } \* function* X(){}

Values == Functions \cup {UndefinedValue, ObjectValue}

\* JavaScript truthiness of such a value and of a string.
TruthyValue(v) == v.type # "undefined"
TruthyString(str) == str # EmptyString

\* File paths of classes, as the characters of the string.
XJs == <<"X", ".", "j", "s">>                       \* "X.js"
DirYJs == <<"d", "/", "Y", ".", "j", "s">>          \* "d/Y.js"
ClassPaths == {XJs, DirYJs}

\* What string concatenation makes of undefined (folder + undefined).
UndefinedString == <<"u", "n", "d", "e", "f", "i", "n", "e", "d">>

\* The src attribute of document.currentScript, the namespace header that
\* calls the loader.
HeaderSrcs == { <<"N", ".", "j", "s">>,               \* "N.js"
                <<"n", "/", "N", ".", "j", "s">> }    \* "n/N.js"

\* The class arrays handed to the loader: the lists of at most MaxScripts
\* paths that alternate between the two paths.
PathAt(i) == IF i % 2 = 1 THEN XJs ELSE DirYJs

ClassArrays == {[i \in 1 .. k |-> PathAt(i)] : k \in 0 .. MaxScripts}

\* What window[className] may hold once a fetched script has run: nothing,
\* a function named X, or an anonymous function.
FoundValues ==
    {UndefinedValue} \cup {f \in Functions : f.id \in {1, 3}}

VARIABLES
    currentSrc,   \* the src attribute of document.currentScript (the header)
    loaderList,   \* GraphmlNamespaceClassLoader.loaderList
    scripts,      \* the <script> elements appended so far, in dispatch order
    nTasks,       \* how many tasks have been enqueued
    enqueuedWhile, \* for every task, the tasks that were draining when it was enqueued
    requested,    \* the paths handed to the loader so far: <<[task, src]>>
    classList,    \* this.classList of every instance: name -> function
    nSets,        \* how many direct setSpecificClass calls have been made
    namespaces,   \* document.namespaces : uri -> instance, Undefined or Absent
    uri,          \* this.uri of every instance
    isScoped,     \* this.isScoped of every instance
    nInst,        \* how many instances have been constructed
    last          \* the last call made: operation, receiver, arguments, result

vars == <<namespaces, uri, isScoped, classList, nInst, nSets, currentSrc,
          loaderList, scripts, nTasks, enqueuedWhile, requested,
          last>>

\* The registry and the instance fields the registry operations touch.
Heap == [namespaces |-> namespaces, uri |-> uri, isScoped |-> isScoped]

\* ------------------------------------------------------------ the registry
\* GraphmlNamespace.get: the property read document.namespaces[uri].
get(ns, u) == IF ns[u] = Absent THEN Undefined ELSE ns[u]

\* JavaScript truthiness of a registry value (an object reference is truthy,
\* undefined is falsy).
Truthy(v) == v # Undefined

\* descope clearing the flag of the instance but leaving its registry entry.
descope_KeepsEntry(h, n) ==
    [h   |-> [h EXCEPT !.isScoped[n] = FALSE],
     ret |-> TRUE]

\* GraphmlNamespace.prototype.descope
descope(h, n) ==
    [h   |-> [h EXCEPT !.namespaces[h.uri[n]] = Absent,
                       !.isScoped[n] = FALSE],
     ret |-> TRUE]

\* scope that never evicts the occupant of the slot: it takes the slot over
\* without calling the occupant's descope.
scope_NoEviction(h, n, overwrite) ==
    IF ~h.isScoped[n]
    THEN LET u   == h.uri[n]
             occ == get(h.namespaces, u)
         IN  IF occ = n
             THEN [h |-> [h EXCEPT !.isScoped[n] = TRUE], ret |-> TRUE]
             ELSE [h   |-> [h EXCEPT !.namespaces[u] = n, !.isScoped[n] = TRUE],
                   ret |-> TRUE]
    ELSE [h |-> h, ret |-> h.isScoped[n]]

\* scope that, on a free slot, sets the flag of the instance but does not
\* enter it in the registry.
scope_FlagOnly(h, n, overwrite) ==
    IF ~h.isScoped[n]
    THEN LET u   == h.uri[n]
             occ == get(h.namespaces, u)
         IN  IF ~Truthy(occ)
             THEN [h |-> [h EXCEPT !.isScoped[n] = TRUE], ret |-> TRUE]
             ELSE IF occ = n
             THEN [h |-> [h EXCEPT !.isScoped[n] = TRUE], ret |-> TRUE]
             ELSE LET d == IF overwrite
                           THEN descope(h, occ)
                           ELSE [h |-> h, ret |-> TRUE]
                  IN  [h   |-> [d.h EXCEPT !.namespaces[u] = n,
                                           !.isScoped[n] = TRUE],
                       ret |-> TRUE]
    ELSE [h |-> h, ret |-> h.isScoped[n]]

\* scope without the test of this.isScoped: an instance that is already
\* flagged goes through the registry branches again.
scope_IgnoresFlag(h, n, overwrite) ==
    LET u   == h.uri[n]
        occ == get(h.namespaces, u)
    IN  IF ~Truthy(occ)
        THEN [h   |-> [h EXCEPT !.namespaces[u] = n, !.isScoped[n] = TRUE],
              ret |-> TRUE]
        ELSE IF occ = n
        THEN [h |-> [h EXCEPT !.isScoped[n] = TRUE], ret |-> TRUE]
        ELSE LET d == IF overwrite
                      THEN descope(h, occ)
                      ELSE [h |-> h, ret |-> TRUE]
             IN  [h   |-> [d.h EXCEPT !.namespaces[u] = n,
                                      !.isScoped[n] = TRUE],
                  ret |-> TRUE]

\* GraphmlNamespace.prototype.scope
scope(h, n, overwrite) ==
    IF ~h.isScoped[n]
    THEN LET u   == h.uri[n]
             occ == get(h.namespaces, u)
         IN  IF ~Truthy(occ)                       \* Not yet scoped
             THEN [h   |-> [h EXCEPT !.namespaces[u] = n, !.isScoped[n] = TRUE],
                   ret |-> TRUE]
             ELSE IF occ = n                       \* Already scoped
             THEN [h   |-> [h EXCEPT !.isScoped[n] = TRUE],
                   ret |-> TRUE]
             ELSE                                  \* Check if can be scoped
                  LET d == IF overwrite
                           THEN descope(h, occ)
                           ELSE [h |-> h, ret |-> TRUE]      \* willScope = true
                  IN  IF d.ret
                      THEN [h   |-> [d.h EXCEPT !.namespaces[u] = n,
                                                !.isScoped[n] = TRUE],
                            ret |-> TRUE]
                      ELSE [h |-> d.h, ret |-> d.h.isScoped[n]]
    ELSE [h |-> h, ret |-> h.isScoped[n]]

\* setNamespaceURI without the refusal of a scoped instance whose old slot is
\* still occupied: the entry is moved instead.
setNamespaceURI_NoRefusal(h, n, u) ==
    LET oldURI == h.uri[n]
    IN  IF oldURI = u
        THEN [h |-> h, ret |-> TRUE]
        ELSE IF h.isScoped[n]
        THEN [h   |-> [h EXCEPT
                          !.namespaces =
                              [[h.namespaces EXCEPT
                                   ![u] = get(h.namespaces, oldURI)]
                               EXCEPT ![oldURI] = Absent],
                          !.uri[n] = u],
              ret |-> TRUE]
        ELSE [h |-> [h EXCEPT !.uri[n] = u], ret |-> TRUE]

\* GraphmlNamespace.prototype.setNamespaceURI
setNamespaceURI(h, n, u) ==
    LET oldURI == h.uri[n]
    IN  IF oldURI = u
        THEN [h |-> h, ret |-> TRUE]
        ELSE IF h.isScoped[n]
        THEN IF Truthy(get(h.namespaces, oldURI))
             THEN [h |-> h, ret |-> FALSE]
             ELSE [h   |-> [h EXCEPT
                               !.namespaces =
                                   [[h.namespaces EXCEPT
                                        ![u] = get(h.namespaces, oldURI)]
                                    EXCEPT ![oldURI] = Absent],
                               !.uri[n] = u],
                   ret |-> TRUE]
        ELSE [h |-> [h EXCEPT !.uri[n] = u], ret |-> TRUE]

\* The constructor without its look at the registry before scoping: it
\* calls scope() whenever the namespace is not marked unscoped.
GraphmlNamespace_NoLookup(h, n, u, unscoped) ==
    LET h0 == [h EXCEPT !.uri[n] = u, !.isScoped[n] = FALSE]
    IN  IF ~unscoped THEN scope(h0, n, FALSE).h ELSE h0

\* The registry part of the constructor, function GraphmlNamespace(uri,
\* attributes): the fields are initialised and, unless attributes.unscoped
\* is true, the instance scopes itself when the slot is free.
GraphmlNamespace(h, n, u, unscoped) ==
    LET h0 == [h EXCEPT !.uri[n] = u, !.isScoped[n] = FALSE]
    IN  IF ~unscoped
        THEN IF ~Truthy(get(h0.namespaces, u))
             THEN scope(h0, n, FALSE).h
             ELSE h0
        ELSE h0

\* ------------------------------------------------------- the class mapping
\* this.classList = {}: no name is mapped.
EmptyClassList == [c \in ClassNames |-> UndefinedValue]

\* setSpecificClass storing the new class before it decides to refuse the
\* overwrite of a scoped namespace.
setSpecificClass_StoreThenRefuse(h, cl, n, name, newClass) ==
    IF ~TruthyValue(newClass) \/ newClass.type # "function"
    THEN [classList |-> cl, ret |-> FALSE]
    ELSE LET nm == IF TruthyString(name) THEN name ELSE newClass.name
         IN  IF ~TruthyString(nm)
             THEN [classList |-> cl, ret |-> FALSE]
             ELSE LET oldClass == cl[nm]
                  IN  IF TruthyValue(oldClass) /\ oldClass.ctor = newClass.ctor
                      THEN [classList |-> cl, ret |-> TRUE]
                      ELSE IF /\ TruthyValue(oldClass)
                              /\ h.isScoped[n]
                              /\ Truthy(get(h.namespaces, h.uri[n]))
                      THEN [classList |-> [cl EXCEPT ![nm] = newClass],
                            ret |-> FALSE]
                      ELSE [classList |-> [cl EXCEPT ![nm] = newClass],
                            ret |-> TRUE]

\* GraphmlNamespace.prototype.setSpecificClass, on the classList cl of
\* instance n.
setSpecificClass(h, cl, n, name, newClass) ==
    IF ~TruthyValue(newClass) \/ newClass.type # "function"
    THEN [classList |-> cl, ret |-> FALSE]
    ELSE LET nm == IF TruthyString(name) THEN name ELSE newClass.name
         IN  IF ~TruthyString(nm)
             THEN [classList |-> cl, ret |-> FALSE]
             ELSE LET oldClass == cl[nm]
                  IN  IF TruthyValue(oldClass) /\ oldClass.ctor = newClass.ctor
                      THEN [classList |-> cl, ret |-> TRUE]
                      ELSE IF /\ TruthyValue(oldClass)
                              /\ h.isScoped[n]
                              /\ Truthy(get(h.namespaces, h.uri[n]))
                      THEN [classList |-> cl, ret |-> FALSE]
                      ELSE [classList |-> [cl EXCEPT ![nm] = newClass],
                            ret |-> TRUE]

\* -------------------------------------------------------------- the loader
\* String.prototype.lastIndexOf for a single character: the 0-based index
\* of its last occurrence, or -1.
lastIndexOf(str, ch) ==
    LET at == {i \in 1 .. Len(str) : str[i] = ch}
    IN  IF at = {} THEN -1 ELSE (CHOOSE i \in at : \A j \in at : j <= i) - 1

\* String.prototype.slice(from, to) with 0-based, end-exclusive indices;
\* a negative index counts from the end.
slice(str, from, to) ==
    LET len == Len(str)
        clamp(i) == IF i < 0 THEN (IF len + i < 0 THEN 0 ELSE len + i)
                    ELSE (IF i > len THEN len ELSE i)
        b == clamp(from)
        e == clamp(to)
    IN  IF b >= e THEN <<>> ELSE SubSeq(str, b + 1, e)

\* The loader's state: the task queue and the script elements.
Loader == [loaderList |-> loaderList, scripts |-> scripts]

\* GraphmlNamespaceClassLoader.loader: a <script> element for folder + src is
\* appended to the document, which starts its fetch.  task is the number of
\* the task the path came from (bookkeeping only).
loader(L, src, namespace, folder, task) ==
    [L EXCEPT !.scripts =
        Append(@, [src       |-> folder \o src,
                   namespace |-> namespace,
                   task      |-> task,
                   state     |-> "loading"])]

\* GraphmlNamespaceClassLoader.loadNextClass
loadNextClass(L) ==
    IF Len(L.loaderList) > 0
    THEN LET entry   == L.loaderList[1]
             shifted == IF Len(entry.classList) > 0
                        THEN Head(entry.classList)
                        ELSE UndefinedString
             rest    == IF Len(entry.classList) > 0
                        THEN Tail(entry.classList)
                        ELSE <<>>
             L1      == loader([L EXCEPT !.loaderList[1].classList = rest],
                               shifted, entry.namespace, entry.folder,
                               entry.task)
         IN  IF Len(rest) = 0
             THEN [L1 EXCEPT !.loaderList = Tail(@)]
             ELSE L1
    ELSE L

\* GraphmlNamespaceClassLoader.load; src is the src attribute of
\* document.currentScript, task the number given to the new task.
load(L, classArray, namespace, src, task) ==
    LET entry == [namespace |-> namespace,
                  classList |-> classArray,
                  folder    |-> slice(src, 0, lastIndexOf(src, "/") + 1),
                  task      |-> task]
        len   == Len(L.loaderList)
        L1    == [L EXCEPT !.loaderList = Append(@, entry)]
    IN  IF len = 0 THEN loadNextClass(L1) ELSE L1

\* function GraphmlNamespaceClassLoader(classArray, namespace)
GraphmlNamespaceClassLoader(L, classArray, namespace, src, task) ==
    IF Len(classArray) > 0
    THEN load(L, classArray, namespace, src, task)
    ELSE L

\* The class name script.onload derives from the script's src attribute:
\* .../File.js --> File
className(src) == slice(src, lastIndexOf(src, "/") + 1, Len(src) - 3)

\* The paths of classArray as the caller hands them to the loader for the
\* task numbered task, in the order of the array.
Requests(classArray, task) ==
    [k \in 1 .. Len(classArray) |-> [task |-> task, src |-> classArray[k]]]

\* The number of scripts a class array makes the loader create: one for each
\* path, and one (for "undefined") when the array is empty.
ScriptsOf(classArray) == IF Len(classArray) = 0 THEN 1 ELSE Len(classArray)

\* The scripts created so far plus those the queued tasks still ask for.
RECURSIVE Pending(_)
Pending(list) ==
    IF list = <<>> THEN 0
    ELSE ScriptsOf(Head(list).classList) + Pending(Tail(list))

Committed == Len(scripts) + Pending(loaderList)

\* The tasks being drained: a first path has been dispatched, and a fetch of
\* the task is outstanding or the task is still in the queue.
Draining ==
    {t \in 1 .. nTasks :
        /\ \E i \in 1 .. Len(scripts) : scripts[i].task = t
        /\ \/ \E i \in 1 .. Len(scripts) :
                 scripts[i].task = t /\ scripts[i].state = "loading"
           \/ \E k \in 1 .. Len(loaderList) : loaderList[k].task = t}

\* The scripts whose fetch is outstanding.
InFlight == {i \in 1 .. Len(scripts) : scripts[i].state = "loading"}

\* ----------------------------------------------------------------- actions
SetHeap(h) ==
    /\ namespaces' = h.namespaces
    /\ uri' = h.uri
    /\ isScoped' = h.isScoped

\* n.setSpecificClass(name, newClass)
SetSpecificClass(n, name, newClass) ==
    /\ n <= nInst
    /\ nSets < MaxSetCalls
    /\ LET r == setSpecificClass(Heap, classList[n], n, name, newClass)
       IN  /\ classList' = [classList EXCEPT ![n] = r.classList]
           /\ last' = [op |-> "setSpecificClass", self |-> n,
                       arg |-> [name |-> name, newClass |-> newClass],
                       ret |-> r.ret]
    /\ nSets' = nSets + 1
    /\ UNCHANGED <<namespaces, uri, isScoped, nInst, currentSrc, loaderList, scripts,
                   nTasks, enqueuedWhile, requested>>

\* new GraphmlNamespace(u, {unscoped: unscoped})
Construct(u, unscoped) ==
    /\ nInst < MaxInst
    /\ LET n == nInst + 1
       IN  /\ SetHeap(GraphmlNamespace(Heap, n, u, unscoped))
           /\ nInst' = n
           /\ classList' = [classList EXCEPT ![n] = EmptyClassList]
           /\ last' = [op |-> "construct", self |-> n,
                       arg |-> [uri |-> u, unscoped |-> unscoped],
                       ret |-> TRUE]
    /\ UNCHANGED <<nSets, currentSrc, loaderList, scripts, nTasks, enqueuedWhile,
                   requested>>

\* n.scope(overwrite)
Scope(n, overwrite) ==
    /\ n <= nInst
    /\ LET r == scope(Heap, n, overwrite)
       IN  /\ SetHeap(r.h)
           /\ last' = [op |-> "scope", self |-> n,
                       arg |-> [overwrite    |-> overwrite,
                                occupant     |-> get(namespaces, uri[n]),
                                wasScoped    |-> isScoped[n],
                                afterDescope |-> (/\ last.op = "descope"
                                                  /\ last.self = n)],
                       ret |-> r.ret]
    /\ UNCHANGED <<classList, nInst, nSets, currentSrc, loaderList, scripts, nTasks,
                   enqueuedWhile, requested>>

\* n.descope()
Descope(n) ==
    /\ n <= nInst
    /\ LET r == descope(Heap, n)
       IN  /\ SetHeap(r.h)
           /\ last' = [op |-> "descope", self |-> n, arg |-> [none |-> TRUE],
                       ret |-> r.ret]
    /\ UNCHANGED <<classList, nInst, nSets, currentSrc, loaderList, scripts, nTasks,
                   enqueuedWhile, requested>>

\* n.setNamespaceURI(u)
SetNamespaceURI(n, u) ==
    /\ n <= nInst
    /\ LET r == setNamespaceURI(Heap, n, u)
       IN  /\ SetHeap(r.h)
           /\ last' = [op |-> "setNamespaceURI", self |-> n,
                       arg |-> [uri |-> u], ret |-> r.ret]
    /\ UNCHANGED <<classList, nInst, nSets, currentSrc, loaderList, scripts, nTasks,
                   enqueuedWhile, requested>>

SetLoader(L) ==
    /\ loaderList' = L.loaderList
    /\ scripts' = L.scripts

\* new GraphmlNamespace(u, {classList: classArray, unscoped: unscoped}),
\* called while the header script (currentSrc) is executing.
ConstructWithClasses(u, classArray, unscoped) ==
    /\ nInst < MaxInst
    /\ Committed + Len(classArray) <= MaxScripts
    /\ LET n == nInst + 1
       IN  /\ SetLoader(GraphmlNamespaceClassLoader(Loader, classArray, n,
                                                    currentSrc, nTasks + 1))
           /\ SetHeap(GraphmlNamespace(Heap, n, u, unscoped))
           /\ nInst' = n
           /\ classList' = [classList EXCEPT ![n] = EmptyClassList]
           /\ last' = [op |-> "construct", self |-> n,
                       arg |-> [uri |-> u, unscoped |-> unscoped,
                                classList |-> classArray],
                       ret |-> TRUE]
    /\ nTasks' = IF Len(classArray) > 0 THEN nTasks + 1 ELSE nTasks
    /\ enqueuedWhile' = IF Len(classArray) > 0
                        THEN Append(enqueuedWhile, Draining)
                        ELSE enqueuedWhile
    /\ requested' = requested \o Requests(classArray, nTasks + 1)
    /\ UNCHANGED <<nSets, currentSrc>>

\* GraphmlNamespaceClassLoader.load(classArray, namespace); namespace is an
\* instance or undefined.
Load(classArray, namespace) ==
    /\ Committed + ScriptsOf(classArray) <= MaxScripts
    /\ namespace <= nInst
    /\ SetLoader(load(Loader, classArray, namespace, currentSrc, nTasks + 1))
    /\ nTasks' = nTasks + 1
    /\ enqueuedWhile' = Append(enqueuedWhile, Draining)
    /\ requested' = requested \o Requests(classArray, nTasks + 1)
    /\ last' = [op |-> "load", self |-> namespace,
                arg |-> [classList |-> classArray], ret |-> TRUE]
    /\ UNCHANGED <<namespaces, uri, isScoped, classList, nInst, nSets, currentSrc>>

\* script.onload of the i-th script; found is what window[className] holds
\* once the fetched script has run.
OnLoad(i, found) ==
    /\ i \in InFlight
    /\ LET script == scripts[i]
           ns     == script.namespace
           name   == className(script.src)
           r      == setSpecificClass(Heap, classList[ns], ns, EmptyString, found)
           L1     == [Loader EXCEPT !.scripts[i].state = "done"]
       IN  /\ classList' = IF Truthy(ns)
                           THEN [classList EXCEPT ![ns] = r.classList]
                           ELSE classList
           /\ SetLoader(loadNextClass(L1))
           /\ last' = [op |-> "onload", self |-> i,
                       arg |-> [className |-> name, found |-> found],
                       ret |-> TRUE]
    /\ UNCHANGED <<namespaces, uri, isScoped, nInst, nSets, currentSrc, nTasks,
                   enqueuedWhile, requested>>

\* script.onerror that clears the callbacks but does not go on to the next
\* class.
OnError_NoNext(i) ==
    /\ i \in InFlight
    /\ SetLoader([Loader EXCEPT !.scripts[i].state = "done"])
    /\ last' = [op |-> "onerror", self |-> i, arg |-> [none |-> TRUE],
                ret |-> TRUE]
    /\ UNCHANGED <<namespaces, uri, isScoped, classList, nInst, nSets, currentSrc,
                   nTasks, enqueuedWhile, requested>>

\* script.onerror of the i-th script
OnError(i) ==
    /\ i \in InFlight
    /\ SetLoader(loadNextClass([Loader EXCEPT !.scripts[i].state = "done"]))
    /\ last' = [op |-> "onerror", self |-> i, arg |-> [none |-> TRUE],
                ret |-> TRUE]
    /\ UNCHANGED <<namespaces, uri, isScoped, classList, nInst, nSets, currentSrc,
                   nTasks, enqueuedWhile, requested>>

Init ==
    /\ namespaces = [u \in Uris |-> Absent]
    /\ uri = [n \in Insts |-> NoUri]
    /\ isScoped = [n \in Insts |-> FALSE]
    /\ classList = [n \in Insts |-> EmptyClassList]
    /\ nInst = 0
    /\ nSets = 0
    /\ currentSrc \in HeaderSrcs
    /\ loaderList = <<>>
    /\ scripts = <<>>
    /\ nTasks = 0
    /\ enqueuedWhile = <<>>
    /\ requested = <<>>
    /\ last = [op |-> "none", self |-> 0, arg |-> [none |-> TRUE], ret |-> TRUE]

NextScope ==
    \/ \E u \in Uris, unscoped \in BOOLEAN : Construct(u, unscoped)
    \/ \E n \in Insts, overwrite \in BOOLEAN : Scope(n, overwrite)
    \/ \E n \in Insts : Descope(n)
    \/ \E n \in Insts, u \in Uris : SetNamespaceURI(n, u)

SpecScope == Init /\ [][NextScope]_vars

\* The class mapping of namespaces sharing one uri: construction, scope,
\* descope and direct setSpecificClass calls.
NextClass ==
    \/ \E unscoped \in BOOLEAN : nInst < MaxClassInst /\ Construct("U", unscoped)
    \/ \E n \in Insts, overwrite \in BOOLEAN : Scope(n, overwrite)
    \/ \E n \in Insts : Descope(n)
    \/ \E n \in Insts, name \in ClassNames \cup {EmptyString}, f \in Values :
          SetSpecificClass(n, name, f)

SpecClass == Init /\ [][NextClass]_vars

\* The loader: namespaces constructed with class lists, direct load calls
\* without a namespace, and the completion of the outstanding fetches.
NextLoader ==
    \/ \E classArray \in ClassArrays :
          nInst < MaxLoaderInst /\ ConstructWithClasses("U", classArray, FALSE)
    \/ \E classArray \in ClassArrays \ {<<>>} : Load(classArray, Undefined)
    \/ \E i \in 1 .. Len(scripts), found \in FoundValues : OnLoad(i, found)
    \/ \E i \in 1 .. Len(scripts) : OnError(i)
    \/ Load(<<>>, Undefined)

SpecLoader == Init /\ [][NextLoader]_vars

\* The fetch of the i-th script concludes: its onload or its onerror fires.
Conclude(i) == (\E found \in FoundValues : OnLoad(i, found)) \/ OnError(i)

\* The loader when every dispatched fetch eventually concludes: the browser
\* fires onload or onerror of every script element that was appended.
SpecLoaderFair ==
    SpecLoader /\ \A i \in 1 .. MaxScripts : WF_vars(Conclude(i))

\* ------------------------------------------------- claims on the registry
\* The instance occupying the slot of n's uri, as GraphmlNamespace.get sees it.
Occupant(n) == get(namespaces, uri[n])

\* C3: registry/flag agreement: for every constructed instance n, n.isScoped
\* is true if and only if document.namespaces[n.uri] is exactly n.
C3_RegistryFlagAgreement ==
    \A n \in Insts : n <= nInst => (isScoped[n] <=> Occupant(n) = n)

\* C4: scoped uniqueness: for every identifier U at most one instance with
\* uri U has isScoped = true.
C4_ScopedUniqueness ==
    \A n, m \in Insts :
        (n <= nInst /\ m <= nInst /\ uri[n] = uri[m]
            /\ isScoped[n] /\ isScoped[m]) => n = m

\* C5: scope conflict without overwrite: when an unscoped instance n calls
\* scope() without overwrite while the slot of n.uri holds a different
\* instance m, the call returns false, n stays unscoped and the registry
\* still maps n.uri to m.
C5_ScopeConflictRefused ==
    [][\A n \in Insts :
          (/\ last'.op = "scope" /\ last'.self = n /\ ~last'.arg.overwrite
           /\ ~isScoped[n] /\ Truthy(Occupant(n)) /\ Occupant(n) # n)
          => (/\ last'.ret = FALSE
              /\ ~isScoped'[n]
              /\ get(namespaces', uri[n]) = Occupant(n))]_vars

\* C6: construction conflict: a namespace constructed with U and not marked
\* unscoped while another instance occupies U ends construction unscoped,
\* get(U) still returns the first instance, whose isScoped is unchanged.
C6_ConstructionConflict ==
    [][\A u \in Uris :
          (/\ last'.op = "construct" /\ nInst' = nInst + 1
           /\ last'.arg.uri = u /\ ~last'.arg.unscoped
           /\ Truthy(get(namespaces, u)))
          => (/\ ~isScoped'[nInst']
              /\ uri'[nInst'] = u
              /\ get(namespaces', u) = get(namespaces, u)
              /\ isScoped'[get(namespaces, u)] = isScoped[get(namespaces, u)])]_vars

\* C6 witness: the last call constructed a namespace that asked to be scoped
\* and was left unscoped because another instance holds its uri.
C6_Witness ==
    /\ last.op = "construct" /\ ~last.arg.unscoped
    /\ ~isScoped[last.self]
    /\ Truthy(Occupant(last.self)) /\ Occupant(last.self) # last.self

\* C7: rename refusal: setNamespaceURI(newUri), newUri different from the
\* current uri, on a scoped instance while the registry has an entry under
\* the old uri returns false and leaves the uri and the registry unchanged.
C7_RenameRefused ==
    [][\A n \in Insts :
          (/\ last'.op = "setNamespaceURI" /\ last'.self = n
           /\ last'.arg.uri # uri[n]
           /\ isScoped[n] /\ Truthy(Occupant(n)))
          => (/\ last'.ret = FALSE
              /\ uri' = uri
              /\ namespaces' = namespaces)]_vars

\* C7 witness: the last call was a refused rename of a scoped instance to a
\* different uri.
C7_Witness ==
    /\ last.op = "setNamespaceURI" /\ last.ret = FALSE
    /\ last.arg.uri # uri[last.self]
    /\ isScoped[last.self] /\ Occupant(last.self) = last.self

\* C8: rename move: whenever setNamespaceURI(newUri) returns true on a scoped
\* instance n with newUri different from the old uri, afterwards the registry
\* maps newUri to n, has no entry under the old uri, and n.uri = newUri.
C8_RenameMoves ==
    [][\A n \in Insts :
          (/\ last'.op = "setNamespaceURI" /\ last'.self = n
           /\ last'.arg.uri # uri[n]
           /\ isScoped[n] /\ last'.ret = TRUE)
          => (/\ namespaces'[last'.arg.uri] = n
              /\ namespaces'[uri[n]] = Absent
              /\ uri'[n] = last'.arg.uri)]_vars

\* ------------------------------------------- claims on the class mapping
\* C9: capability overwrite protection (scoped): on a namespace that is
\* scoped and registered, with a class stored under name X, the call
\* setSpecificClass(X, f) with a function f that is a different
\* implementation from the stored one returns false and the stored
\* implementation under X is retained.
C9_OverwriteRefusedWhenScoped ==
    [][\A n \in Insts, x \in ClassNames :
          (/\ last'.op = "setSpecificClass" /\ last'.self = n
           /\ last'.arg.name = x
           /\ last'.arg.newClass \in Functions
           /\ isScoped[n] /\ Occupant(n) = n
           /\ TruthyValue(classList[n][x])
           /\ last'.arg.newClass # classList[n][x])
          => (/\ last'.ret = FALSE
              /\ classList'[n][x] = classList[n][x])]_vars

\* C10: capability overwrite (unscoped): on a namespace whose isScoped is
\* false, with a class stored under name X, the call setSpecificClass(X, f)
\* with a function f that is a different implementation from the stored one
\* returns true and afterwards the class stored under X is f.
C10_OverwriteProceedsWhenUnscoped ==
    [][\A n \in Insts, x \in ClassNames :
          (/\ last'.op = "setSpecificClass" /\ last'.self = n
           /\ last'.arg.name = x
           /\ last'.arg.newClass \in Functions
           /\ ~isScoped[n]
           /\ TruthyValue(classList[n][x])
           /\ last'.arg.newClass # classList[n][x])
          => (/\ last'.ret = TRUE
              /\ classList'[n][x] = last'.arg.newClass)]_vars

\* -------------------------------------------------- claims on the loader
\* C1: in every reachable state, after any interleaving of load calls and
\* fetch completions, at most one external fetch is in flight.
C1_OneFetchInFlight == Cardinality(InFlight) <= 1

\* C2: loader ordering: when task T2 is enqueued while an earlier task T1 is
\* draining, no path of T2 is dispatched before every path of T1 has been
\* dispatched and its fetch has concluded.
C2_LoaderOrdering ==
    [][\A t2 \in 1 .. nTasks' :
          (/\ Len(scripts') > Len(scripts)
           /\ scripts'[Len(scripts')].task = t2)
          => \A t1 \in enqueuedWhile'[t2] :
                /\ \A i \in 1 .. Len(scripts') :
                      scripts'[i].task = t1 => scripts'[i].state = "done"
                /\ \A k \in 1 .. Len(loaderList') : loaderList'[k].task # t1]_vars

\* ------------------------------------- further claims on the class mapping
\* The name setSpecificClass files newClass under: name || newClass.name.
ResolvedName(name, newClass) ==
    IF TruthyString(name) THEN name ELSE newClass.name

C15_ScopeWithOverwrite ==
    [][\A n \in Insts, m \in Insts :
          (/\ last'.op = "scope" /\ last'.self = n /\ last'.arg.overwrite
           /\ ~isScoped[n]
           /\ m # n /\ get(namespaces, uri[n]) = m)
          => /\ last'.ret = TRUE
             /\ get(namespaces', uri'[n]) = n
             /\ isScoped'[n]
             /\ ~isScoped'[m]]_vars

\* C15 witness: the last call was scope(true) by an unscoped instance whose
\* slot held another instance, and it took the slot over.
C15_Witness ==
    /\ last.op = "scope" /\ last.arg.overwrite /\ ~last.arg.wasScoped
    /\ last.arg.occupant \in Insts \ {last.self}
    /\ last.ret = TRUE
    /\ Occupant(last.self) = last.self
    /\ ~isScoped[last.arg.occupant]

\* C16: for any instance n, n.descope() immediately followed by n.scope()
\* without overwrite leaves n.isScoped true and GraphmlNamespace.get(n.uri)
\* returning n.
C16_DescopeScopeSymmetry ==
    [][\A n \in Insts :
          (/\ last.op = "descope" /\ last.self = n
           /\ last'.op = "scope" /\ last'.self = n /\ ~last'.arg.overwrite)
          => /\ isScoped'[n]
             /\ get(namespaces', uri'[n]) = n]_vars

\* C16 witness: the last two calls were n.descope() and n.scope() without
\* overwrite, on an instance that shares its uri with another instance, and
\* n is scoped again.
C16_Witness ==
    /\ last.op = "scope" /\ ~last.arg.overwrite /\ last.arg.afterDescope
    /\ ~last.arg.wasScoped
    /\ \E m \in Insts \ {last.self} : m <= nInst /\ uri[m] = uri[last.self]
    /\ isScoped[last.self] /\ Occupant(last.self) = last.self

\* C17: scope, with any overwrite value, on an instance whose isScoped is
\* already true returns true and leaves the registry mapping and every
\* instance's isScoped flag unchanged.
C17_ScopeIdempotent ==
    [][\A n \in Insts :
          (last'.op = "scope" /\ last'.self = n /\ isScoped[n])
          => /\ last'.ret = TRUE
             /\ namespaces' = namespaces
             /\ isScoped' = isScoped]_vars

\* C17 witness: the last call was scope(true) on an instance that was already
\* flagged as scoped while its slot was free.
C17_Witness ==
    /\ last.op = "scope" /\ last.arg.wasScoped /\ last.arg.overwrite
    /\ ~Truthy(last.arg.occupant)
    /\ last.ret = TRUE

\* C19: every registry entry that holds a namespace instance n under key k
\* satisfies n.uri = k and n.isScoped = true.
C19_RegistryEntryInvariant ==
    \A k \in Uris :
        namespaces[k] \in Insts
        => /\ uri[namespaces[k]] = k
           /\ isScoped[namespaces[k]]

\* C19 witness: an instance sits in the registry under k right after another,
\* unscoped instance has renamed itself to k.
C19_Witness ==
    /\ last.op = "setNamespaceURI" /\ last.ret = TRUE
    /\ uri[last.self] = last.arg.uri
    /\ namespaces[last.arg.uri] \in Insts \ {last.self}
    /\ \E k \in Uris \ {last.arg.uri} : namespaces[k] \in Insts

\* C20: a call n.setNamespaceURI(newUri), whether it returns true or false,
\* leaves GraphmlNamespace.get(k) unchanged for every identifier k whose
\* registry occupant is an instance other than n.
C20_RenameFrame ==
    [][\A n \in Insts, k \in Uris :
          (/\ last'.op = "setNamespaceURI" /\ last'.self = n
           /\ get(namespaces, k) \in Insts \ {n})
          => get(namespaces', k) = get(namespaces, k)]_vars

\* ----------------------------------------- further claims on the loader
\* C12: if the fetch of B of a task [A, B, C] with a target namespace fails,
\* the failure registers nothing, dispatches nothing but the task's next
\* path (no retry), and C is dispatched after B's failure, not before it.
C12_FetchFailureTolerance ==
    [][\A i \in 1 .. Len(scripts) :
          (/\ last'.op = "onerror" /\ last'.self = i
           /\ Truthy(scripts[i].namespace))
          => LET t == scripts[i].task
             IN  /\ classList' = classList
                 /\ Len(scripts') <= Len(scripts) + 1
                 /\ \A j \in 1 .. Len(scripts) : scripts'[j].src = scripts[j].src
                 /\ ~ \E j \in (i + 1) .. Len(scripts) : scripts[j].task = t
                 /\ (\E k \in 1 .. Len(loaderList) : loaderList[k].task = t)
                       => /\ Len(scripts') = Len(scripts) + 1
                          /\ scripts'[Len(scripts')].task = t]_vars

\* The paths dispatched so far, with the task each belongs to, in dispatch
\* order.
Dispatched ==
    [i \in 1 .. Len(scripts) |->
        [task |-> scripts[i].task, src |-> scripts[i].src]]

\* The paths enqueued so far under the folder of the header script, with the
\* task each belongs to, in enqueue order.
Enqueued ==
    [k \in 1 .. Len(requested) |->
        [task |-> requested[k].task,
         src  |-> slice(currentSrc, 0, lastIndexOf(currentSrc, "/") + 1)
                     \o requested[k].src]]

\* Every path of every task enqueued so far has been dispatched.
AllDispatched ==
    /\ Len(Dispatched) >= Len(Enqueued)
    /\ \A t \in 1 .. nTasks :
          LET want == SelectSeq(Enqueued, LAMBDA e : e.task = t)
              got  == SelectSeq(Dispatched, LAMBDA e : e.task = t)
          IN  /\ Len(got) >= Len(want)
              /\ \A k \in 1 .. Len(want) : got[k] = want[k]

\* C13: assuming every dispatched fetch eventually concludes, every path of
\* every enqueued task is eventually dispatched and the queue eventually
\* becomes empty, whatever the fetch outcomes; and there is no reachable
\* state with a non-empty queue and no fetch in flight.
C13_LoaderProgress ==
    /\ [](loaderList # <<>> => InFlight # {})
    /\ (loaderList # <<>>) ~> (loaderList = <<>> /\ AllDispatched)
    /\ []<>AllDispatched

\* C13 witness: a fetch has just failed while a second task was waiting in
\* the queue, and the queue has been drained to the end all the same.
C13_Witness ==
    /\ last.op = "onerror"
    /\ nTasks >= 2
    /\ enqueuedWhile[nTasks] # {}
    /\ \E i \in 1 .. Len(scripts) : scripts[i].task = nTasks
    /\ loaderList = <<>>
    /\ AllDispatched
    /\ Len(scripts) >= 3

\* C14: when a fetch succeeds for a task with a target namespace and an
\* implementation is found under the derived name D, the implementation is
\* stored in the namespace's class mapping under D, whatever its own name is.
C14_DerivedClassName ==
    [][\A i \in 1 .. Len(scripts) :
          (/\ last'.op = "onload" /\ last'.self = i
           /\ Truthy(scripts[i].namespace)
           /\ last'.arg.found \in Functions)
          => classList'[scripts[i].namespace][className(scripts[i].src)]
                = last'.arg.found]_vars

\* C18: the sequence of paths dispatched for fetching is the concatenation of
\* the enqueued tasks' path lists in enqueue order, each list in its given
\* order, no path dispatched twice: at every moment the paths dispatched so
\* far are the first ones of that concatenation.
C18_FifoDispatch ==
    /\ Len(Dispatched) <= Len(Enqueued)
    /\ \A i \in 1 .. Len(Dispatched) : Dispatched[i] = Enqueued[i]

====
